---- MODULE Spec2Model ----
(***************************************************************************)
(* Model of asset_tracker.py: the Database class (SQLite tables assets,    *)
(* history, settings) with its operations and queries, and the tab bar and *)
(* password dialogs of the main window AssetTrackerApp.                    *)
(*                                                                         *)
(* Spec         : the asset operations, one call after the other.          *)
(* SpecSettings : the same with set_setting and process starts, on two     *)
(*                assets.                                                  *)
(* SpecFrame    : the asset operations, set_setting on two keys and the    *)
(*                queries.                                                 *)
(* SpecOneAsset : the asset operations on one asset, over a longer history.*)
(* SpecUI       : the main window: start, tab selection, tab moves,        *)
(*                password change, close.                                  *)
(* SpecCrash    : one connection runs the calls statement by statement     *)
(*                and its process may die at any point.                    *)
(* SpecConn     : two connections run calls statement by statement, with   *)
(*                SQLite's write lock, commit, rollback and lock timeout.  *)
(***************************************************************************)
EXTENDS Integers, Sequences, FiniteSets, TLC

(***************************************************************************)
(* Bounds of the model.                                                    *)
(***************************************************************************)
MaxEvents == 3      \* history rows the model lets the log grow to

(***************************************************************************)
(* Values.                                                                 *)
(***************************************************************************)
\* SQL NULL / Python None in a TEXT column; text is a sequence of characters.
NULL == <<"NULL">>

\* NULL in the checked_out_at column; timestamps are clock readings >= 1.
NoTime == 0

\* (asset_type, asset_id): same type with two ids, same id with two types.
Keys == { <<"Mouse", 1>>, <<"Mouse", 2>>, <<"Keyboard", 1>> }
\* Two distinct readings of datetime.utcnow().
Timestamps == {1, 2}

\* Student names handed to checkout/checkin: blank, lower case, padded upper case.
ActorInputs == { <<" ">>, <<"a">>, <<" ", "A">> }

SettingValues == { <<"a","d","m","i","n","1","2","3">>, <<"p","w">> }

(***************************************************************************)
(* str.strip() and str.lower() on sequences of characters.                 *)
(***************************************************************************)
IsSpace(c) == c \in {" ", "\t", "\n"}

RECURSIVE lstrip(_)
lstrip(s) == IF s # <<>> /\ IsSpace(Head(s)) THEN lstrip(Tail(s)) ELSE s

RECURSIVE rstrip(_)
rstrip(s) ==
  IF s # <<>> /\ IsSpace(s[Len(s)]) THEN rstrip(SubSeq(s, 1, Len(s) - 1)) ELSE s

strip(s) == rstrip(lstrip(s))

lower_char(c) ==
  CASE c = "A" -> "a"
    [] c = "B" -> "b"
    [] OTHER -> c

lower(s) == [i \in 1..Len(s) |-> lower_char(s[i])]

(***************************************************************************)
(* The database file: the three tables and history's AUTOINCREMENT counter *)
(* (sqlite_sequence).  A value of this shape is either the committed file  *)
(* or the working copy of an open write transaction.                       *)
(***************************************************************************)
AssetRow(status, by, at) ==
  [status |-> status, checked_out_by |-> by, checked_out_at |-> at]

HistoryRow(event_id, k, action, actor, ts) ==
  [event_id |-> event_id, asset_type |-> k[1], asset_id |-> k[2],
   action |-> action, actor |-> actor, timestamp |-> ts]

Max(a, b) == IF a >= b THEN a ELSE b

RECURSIVE MaxEventId(_)
MaxEventId(h) ==
  IF h = <<>> THEN 0 ELSE Max(h[Len(h)].event_id, MaxEventId(SubSeq(h, 1, Len(h) - 1)))

\* INTEGER PRIMARY KEY AUTOINCREMENT: one more than the largest id ever used.
NextEventId(d) == Max(d.seq, MaxEventId(d.history)) + 1

\* The value _ensure_db seeds admin_password with.
DefaultPassword == <<"a","d","m","i","n","1","2","3">>

\* _ensure_db on a fresh file: empty tables, the default admin password.
EmptyDb ==
  [assets |-> [x \in {} |-> AssetRow("available", NULL, NoTime)],
   history |-> <<>>, seq |-> 0,
   settings |-> [key \in {"admin_password"} |-> DefaultPassword]]

HasAsset(d, k) == k \in DOMAIN d.assets

\* Variant: INSERT OR REPLACE, an existing key is no error.
InsertAssetFails_OrReplace(d, k) == FALSE

\* INSERT INTO assets(asset_type, asset_id, status) VALUES(?, ?, 'available')
\* The PRIMARY KEY rejects an existing (asset_type, asset_id).
InsertAssetFails(d, k) == HasAsset(d, k)

InsertAsset(d, k) ==
  [d EXCEPT !.assets =
     [x \in DOMAIN d.assets \cup {k} |->
        IF x = k THEN AssetRow("available", NULL, NoTime) ELSE d.assets[x]]]

\* INSERT INTO history(asset_type, asset_id, action, actor, timestamp)
InsertHistory(d, k, action, actor, ts) ==
  LET id == NextEventId(d)
  IN [d EXCEPT !.history = Append(d.history, HistoryRow(id, k, action, actor, ts)),
               !.seq = id]

\* Variant: deleting an asset also deletes its history rows.
DeleteAsset_PrunesHistory(d, k) ==
  [d EXCEPT !.assets = [x \in DOMAIN d.assets \ {k} |-> d.assets[x]],
            !.history = SelectSeq(d.history,
                          LAMBDA e : <<e.asset_type, e.asset_id>> # k)]

\* DELETE FROM assets WHERE asset_type=? AND asset_id=?
DeleteAsset(d, k) ==
  [d EXCEPT !.assets = [x \in DOMAIN d.assets \ {k} |-> d.assets[x]]]

\* SELECT ... FROM assets WHERE asset_type=? AND asset_id=?  (fetchone)
NoRow == [status |-> "none", checked_out_by |-> NULL, checked_out_at |-> NoTime]

\* Variant: the lookup matches asset_id alone.
SelectAsset_ByIdOnly(d, k) ==
  IF \E x \in DOMAIN d.assets : x[2] = k[2]
  THEN d.assets[CHOOSE x \in DOMAIN d.assets : x[2] = k[2]]
  ELSE NoRow

SelectAsset(d, k) == IF HasAsset(d, k) THEN d.assets[k] ELSE NoRow

\* Variant: the UPDATE of checkout matches asset_id alone.
UpdateCheckedOut_ByIdOnly(d, k, by, ts) ==
  [d EXCEPT !.assets =
     [x \in DOMAIN d.assets |->
        IF x[2] = k[2] THEN AssetRow("checked_out", by, ts) ELSE d.assets[x]]]

\* UPDATE assets SET status='checked_out', checked_out_by=?, checked_out_at=? WHERE ...
UpdateCheckedOut(d, k, by, ts) ==
  [d EXCEPT !.assets =
     [x \in DOMAIN d.assets |->
        IF x = k THEN AssetRow("checked_out", by, ts) ELSE d.assets[x]]]

\* Variant: the UPDATE of checkin resets the status only.
UpdateAvailable_KeepsBorrower(d, k) ==
  [d EXCEPT !.assets =
     [x \in DOMAIN d.assets |->
        IF x = k THEN [d.assets[x] EXCEPT !.status = "available"] ELSE d.assets[x]]]

\* UPDATE assets SET status='available', checked_out_by=NULL, checked_out_at=NULL WHERE ...
UpdateAvailable(d, k) ==
  [d EXCEPT !.assets =
     [x \in DOMAIN d.assets |->
        IF x = k THEN AssetRow("available", NULL, NoTime) ELSE d.assets[x]]]

\* REPLACE INTO settings(key, value) VALUES(?, ?)
ReplaceSetting(d, key, value) ==
  [d EXCEPT !.settings =
     [x \in DOMAIN d.settings \cup {key} |->
        IF x = key THEN value ELSE d.settings[x]]]

\* A database file no process has opened yet: CREATE TABLE IF NOT EXISTS makes
\* its three tables, all empty.
NewFile ==
  [assets |-> [x \in {} |-> AssetRow("available", NULL, NoTime)],
   history |-> <<>>, seq |-> 0,
   settings |-> [key \in {} |-> DefaultPassword]]

\* Variant: INSERT OR REPLACE, the stored value is overwritten.
InsertOrIgnoreSetting_OrReplace(d, key, value) == ReplaceSetting(d, key, value)

\* INSERT OR IGNORE INTO settings(key, value) VALUES(...)
InsertOrIgnoreSetting(d, key, value) ==
  IF key \in DOMAIN d.settings THEN d ELSE ReplaceSetting(d, key, value)

\* _ensure_db: the CREATE TABLE IF NOT EXISTS statements leave existing tables
\* as they are; then the default password is inserted.
ensure_db(d) == InsertOrIgnoreSetting(d, "admin_password", DefaultPassword)

(***************************************************************************)
(* The checks the operations make on the row they have read.               *)
(***************************************************************************)
\* Variant: checkout without the availability check.
checkout_check_NoStatus(row) == IF row = NoRow THEN "NotFound" ELSE "ok"

\* checkout: `if not row` / `if row[0] != 'available'`
checkout_check(row) ==
  IF row = NoRow THEN "NotFound"
  ELSE IF row.status # "available" THEN "AlreadyCheckedOut"
  ELSE "ok"

\* (by or '')
by_or_empty(by) == IF by = NULL THEN <<>> ELSE by

\* Variant: checkin compares the names case-sensitively.
checkin_check_CaseSensitive(row, student) ==
  IF row = NoRow THEN "NotFound"
  ELSE IF row.status # "checked_out" THEN "NotCheckedOut"
  ELSE IF strip(by_or_empty(row.checked_out_by)) # strip(student) THEN "ActorMismatch"
  ELSE "ok"

\* Variant: checkin does not test the status, only the names.
checkin_check_NoStatus(row, student) ==
  IF row = NoRow THEN "NotFound"
  ELSE IF lower(strip(by_or_empty(row.checked_out_by))) # lower(strip(student))
       THEN "ActorMismatch"
  ELSE "ok"

\* checkin: `if not row` / `if status != 'checked_out'` / the name comparison
checkin_check(row, student) ==
  IF row = NoRow THEN "NotFound"
  ELSE IF row.status # "checked_out" THEN "NotCheckedOut"
  ELSE IF lower(strip(by_or_empty(row.checked_out_by))) # lower(strip(student))
       THEN "ActorMismatch"
  ELSE "ok"

\* Variant: an asset that is checked out cannot be removed.
remove_check_AvailableOnly(row) ==
  IF row = NoRow THEN "NotFound"
  ELSE IF row.status = "checked_out" THEN "AlreadyCheckedOut"
  ELSE "ok"

\* remove_asset: `if not cur.fetchone()`
remove_check(row) == IF row = NoRow THEN "NotFound" ELSE "ok"

(***************************************************************************)
(* The operations as whole calls on a database d: the database after the   *)
(* call (a raised exception rolls the connection back) and the outcome.    *)
(***************************************************************************)
Outcome(d, result) == [db |-> d, result |-> result]

add_asset(d, k, ts) ==
  IF InsertAssetFails(d, k) THEN Outcome(d, "DuplicateKey")
  ELSE Outcome(InsertHistory(InsertAsset(d, k), k, "added", NULL, ts), "ok")

\* Variant: remove_asset deletes the row without recording the removal.
remove_asset_NoHistory(d, k, ts) ==
  IF remove_check(SelectAsset(d, k)) # "ok"
  THEN Outcome(d, remove_check(SelectAsset(d, k)))
  ELSE Outcome(DeleteAsset(d, k), "ok")

remove_asset(d, k, ts) ==
  IF remove_check(SelectAsset(d, k)) # "ok"
  THEN Outcome(d, remove_check(SelectAsset(d, k)))
  ELSE Outcome(InsertHistory(DeleteAsset(d, k), k, "removed", NULL, ts), "ok")

\* Variant: the history row gets a clock reading of its own, later than the row's.
checkout_SecondClockRead(d, k, student, ts) ==
  IF checkout_check(SelectAsset(d, k)) # "ok"
  THEN Outcome(d, checkout_check(SelectAsset(d, k)))
  ELSE Outcome(InsertHistory(UpdateCheckedOut(d, k, strip(student), ts),
                             k, "checked_out", strip(student), ts + 1), "ok")

checkout(d, k, student, ts) ==
  IF checkout_check(SelectAsset(d, k)) # "ok"
  THEN Outcome(d, checkout_check(SelectAsset(d, k)))
  ELSE Outcome(InsertHistory(UpdateCheckedOut(d, k, strip(student), ts),
                             k, "checked_out", strip(student), ts), "ok")

\* Variant: checkin clears the row before it compares the names.
checkin_ClearsBeforeCheck(d, k, student, ts) ==
  IF checkin_check(SelectAsset(d, k), student) = "ActorMismatch"
  THEN Outcome(UpdateAvailable(d, k), "ActorMismatch")
  ELSE IF checkin_check(SelectAsset(d, k), student) # "ok"
  THEN Outcome(d, checkin_check(SelectAsset(d, k), student))
  ELSE Outcome(InsertHistory(UpdateAvailable(d, k),
                             k, "checked_in", strip(student), ts), "ok")

checkin(d, k, student, ts) ==
  IF checkin_check(SelectAsset(d, k), student) # "ok"
  THEN Outcome(d, checkin_check(SelectAsset(d, k), student))
  ELSE Outcome(InsertHistory(UpdateAvailable(d, k),
                             k, "checked_in", strip(student), ts), "ok")

set_setting(d, key, value) == Outcome(ReplaceSetting(d, key, value), "ok")

\* SELECT value FROM settings WHERE key=?  /  `row[0] if row else default`
get_setting(d, key, default) ==
  IF key \in DOMAIN d.settings THEN d.settings[key] ELSE default

(***************************************************************************)
(* The queries.  asset_type is TEXT and compares byte by byte (BINARY      *)
(* collation), asset_id is INTEGER and compares as a number.               *)
(***************************************************************************)
\* The bytes of the type names the model uses.
Bytes(t) ==
  CASE t = "Keyboard" -> <<75, 101, 121, 98, 111, 97, 114, 100>>
    [] t = "Mouse" -> <<77, 111, 117, 115, 101>>

\* memcmp, then the shorter text first.
RECURSIVE BytesLess(_, _)
BytesLess(a, b) ==
  IF b = <<>> THEN FALSE
  ELSE IF a = <<>> THEN TRUE
  ELSE IF Head(a) # Head(b) THEN Head(a) < Head(b)
  ELSE BytesLess(Tail(a), Tail(b))

\* Variant: ORDER BY type DESC, id DESC.
RowLess_Descending(k1, k2) ==
  \/ BytesLess(Bytes(k2[1]), Bytes(k1[1]))
  \/ k1[1] = k2[1] /\ k2[2] < k1[2]

\* ORDER BY type, id
RowLess(k1, k2) ==
  \/ BytesLess(Bytes(k1[1]), Bytes(k2[1]))
  \/ k1[1] = k2[1] /\ k1[2] < k2[2]

RECURSIVE OrderBy(_)
OrderBy(S) ==
  IF S = {} THEN <<>>
  ELSE LET first == CHOOSE x \in S : \A y \in S \ {x} : RowLess(x, y)
       IN <<first>> \o OrderBy(S \ {first})

\* WHERE status='checked_out', when asked for
Selected(d, only_checked_out) ==
  { k \in DOMAIN d.assets : only_checked_out => d.assets[k].status = "checked_out" }

list_assets(d, only_checked_out) ==
  LET ks == OrderBy(Selected(d, only_checked_out))
  IN [i \in 1..Len(ks) |->
        [id |-> ks[i][2], type |-> ks[i][1], status |-> d.assets[ks[i]].status,
         checked_out_by |-> d.assets[ks[i]].checked_out_by,
         checked_out_at |-> d.assets[ks[i]].checked_out_at]]

\* Variant: the report lists every asset, not the checked-out ones only.
get_report_data_Unfiltered(d) ==
  LET ks == OrderBy(DOMAIN d.assets)
  IN [i \in 1..Len(ks) |->
        [asset_id |-> ks[i][2], asset_type |-> ks[i][1],
         checked_out_by |-> d.assets[ks[i]].checked_out_by,
         checked_out_at |-> d.assets[ks[i]].checked_out_at]]

get_report_data(d) ==
  LET ks == OrderBy({ k \in DOMAIN d.assets : d.assets[k].status = "checked_out" })
  IN [i \in 1..Len(ks) |->
        [asset_id |-> ks[i][2], asset_type |-> ks[i][1],
         checked_out_by |-> d.assets[ks[i]].checked_out_by,
         checked_out_at |-> d.assets[ks[i]].checked_out_at]]

(***************************************************************************)
(* State.                                                                  *)
(***************************************************************************)
VARIABLES
  assets,      \* committed assets table: (type, id) -> row
  history,     \* committed history table, in event order
  hseq,        \* committed sqlite_sequence entry of history
  settings,    \* committed settings table: key -> value
  last,        \* the call that returned last: operation, arguments, outcome
  nSucceeded,  \* number of add/remove/checkout/checkin calls that returned normally
  conn,        \* per connection: where its call stands, and the call's arguments
  txn,         \* the open write transaction: its owner and its uncommitted database
  ui           \* the main window: admin_verified, the tab bar, the dialogs' entries

vars == <<assets, history, hseq, settings, last, nSucceeded, conn, txn, ui>>

Db == [assets |-> assets, history |-> history, seq |-> hseq, settings |-> settings]

Store(d) ==
  /\ assets' = d.assets
  /\ history' = d.history
  /\ hseq' = d.seq
  /\ settings' = d.settings

Call(op, k, actor, result) == [op |-> op, key |-> k, actor |-> actor, result |-> result]

NoKey == <<"", 0>>

\* Connections (one per sqlite3.connect of a running call), e.g. two app instances.
Conns == {"c1", "c2"}

Idle == [pc |-> "idle", op |-> "none", key |-> NoKey, actor |-> NULL, ts |-> NoTime]

NoTxn == [owner |-> "none", db |-> EmptyDb]

\* The tabs in the order _init_ui adds them; QTabWidget counts them from 0.
TabLabels == <<"Inventory", "Check Out", "Check In", "Reports">>

\* What the dialogs of _change_password returned; NULL where a dialog was
\* cancelled or not reached.
Entered(current_pw, new_pw, confirm_pw) ==
  [current_pw |-> current_pw, new_pw |-> new_pw, confirm_pw |-> confirm_pw]

NoEntry == Entered(NULL, NULL, NULL)

\* The window as __init__ and _init_ui have built it when _init_ui reaches its
\* last statement, the call _on_tab_changed(0); it is not on screen yet.
NewWindow ==
  [admin_verified |-> FALSE, tabs |-> TabLabels, current |-> 0, shown |-> FALSE,
   entered |-> NoEntry]

Init ==
  /\ assets = EmptyDb.assets
  /\ history = EmptyDb.history
  /\ hseq = EmptyDb.seq
  /\ settings = EmptyDb.settings
  /\ last = Call("init", NoKey, NULL, "ok")
  /\ nSucceeded = 0
  /\ conn = [p \in Conns |-> Idle]
  /\ txn = NoTxn
  /\ ui = NewWindow

\* A call returns: the database is the call's, the outcome is recorded.
\* Histories are explored up to cap events.
Return(op, k, actor, out, cap) ==
  /\ out.result = "ok" => Len(history) < cap
  /\ Store(out.db)
  /\ last' = Call(op, k, actor, out.result)
  /\ nSucceeded' = IF out.result = "ok" THEN nSucceeded + 1 ELSE nSucceeded
  /\ UNCHANGED <<conn, txn, ui>>

\* datetime.utcnow() is evaluated only once the checks of the call have passed.
Readings(check) == IF check = "ok" THEN Timestamps ELSE {1}

AddAsset(keys, cap) ==
  \E k \in keys :
    \E ts \in Readings(IF InsertAssetFails(Db, k) THEN "DuplicateKey" ELSE "ok") :
      LET out == add_asset(Db, k, ts) IN Return("add_asset", k, NULL, out, cap)

RemoveAsset(keys, cap) ==
  \E k \in keys :
    \E ts \in Readings(remove_check(SelectAsset(Db, k))) :
      LET out == remove_asset(Db, k, ts) IN Return("remove_asset", k, NULL, out, cap)

Checkout(keys, actors, cap) ==
  \E k \in keys, student \in actors :
    \E ts \in Readings(checkout_check(SelectAsset(Db, k))) :
      LET out == checkout(Db, k, student, ts) IN Return("checkout", k, student, out, cap)

Checkin(keys, actors, cap) ==
  \E k \in keys, student \in actors :
    \E ts \in Readings(checkin_check(SelectAsset(Db, k), student)) :
      LET out == checkin(Db, k, student, ts) IN Return("checkin", k, student, out, cap)

\* The settings row a call names, in the place of the asset key of the call record.
SettingKey(key) == <<key, 0>>

SetSetting(names, values) ==
  \E key \in names, value \in values :
    LET out == set_setting(Db, key, value)
    IN /\ Store(out.db)
       /\ last' = Call("set_setting", SettingKey(key), NULL, out.result)
       /\ UNCHANGED <<nSucceeded, conn, txn, ui>>

\* A query returns; the queries execute SELECT statements only.
Query(op, k) ==
  /\ last' = Call(op, k, NULL, "ok")
  /\ UNCHANGED <<assets, history, hseq, settings, nSucceeded, conn, txn, ui>>

ListAssets == \E only_checked_out \in BOOLEAN : Query("list_assets", NoKey)

GetReportData == Query("get_report_data", NoKey)

GetSetting(names) == \E key \in names : Query("get_setting", SettingKey(key))

\* The asset operations, one call after the other.
Next ==
  \/ AddAsset(Keys, MaxEvents)
  \/ RemoveAsset(Keys, MaxEvents)
  \/ Checkout(Keys, ActorInputs, MaxEvents)
  \/ Checkin(Keys, ActorInputs, MaxEvents)

Spec == Init /\ [][Next]_vars

\* The assets the calls work on while the settings change as well.
SettingsKeys == { <<"Mouse", 1>>, <<"Keyboard", 1>> }

\* The assets the calls work on while the process may die.
CrashKeys == { <<"Mouse", 1>>, <<"Mouse", 2>> }

\* A process starts: Database() runs _ensure_db on the file.
EnsureDb ==
  /\ Store(ensure_db(Db))
  /\ last' = Call("_ensure_db", NoKey, NULL, "ok")
  /\ UNCHANGED <<nSucceeded, conn, txn, ui>>

\* The asset operations, set_setting and process starts, one call after the other.
NextSettings ==
  \/ AddAsset(SettingsKeys, MaxEvents)
  \/ RemoveAsset(SettingsKeys, MaxEvents)
  \/ Checkout(SettingsKeys, ActorInputs, MaxEvents)
  \/ Checkin(SettingsKeys, ActorInputs, MaxEvents)
  \/ SetSetting({"admin_password"}, SettingValues)
  \/ EnsureDb

SpecSettings == Init /\ [][NextSettings]_vars

\* One borrower, two settings rows: the calls and queries whose effect on the
\* rows they do not name is followed.
FrameActors == { <<"a">> }
SettingNames == {"admin_password", "theme"}
FrameValues == { <<"p", "w">> }

NextFrame ==
  \/ AddAsset(Keys, MaxEvents)
  \/ RemoveAsset(Keys, MaxEvents)
  \/ Checkout(Keys, FrameActors, MaxEvents)
  \/ Checkin(Keys, FrameActors, MaxEvents)
  \/ SetSetting(SettingNames, FrameValues)
  \/ ListAssets
  \/ GetReportData
  \/ GetSetting(SettingNames)

SpecFrame == Init /\ [][NextFrame]_vars

\* One asset followed through a longer life: two events more than MaxEvents.
OneKey == { <<"Mouse", 1>> }
LifeEvents == MaxEvents + 2

NextOneAsset ==
  \/ AddAsset(OneKey, LifeEvents)
  \/ RemoveAsset(OneKey, LifeEvents)
  \/ Checkout(OneKey, ActorInputs, LifeEvents)
  \/ Checkin(OneKey, ActorInputs, LifeEvents)

SpecOneAsset == Init /\ [][NextOneAsset]_vars

(***************************************************************************)
(* The same operations statement by statement, on connection p.            *)
(*                                                                         *)
(* sqlite3 opens a transaction (BEGIN) before the first INSERT/UPDATE/     *)
(* DELETE of a connection, not before a SELECT: the SELECT of remove_asset,*)
(* checkout and checkin reads the committed file and holds no lock once    *)
(* fetchone() has returned.  The first write takes the file's write lock,  *)
(* conn.commit() publishes the transaction, and an exception or the death  *)
(* of the process rolls it back.                                           *)
(***************************************************************************)
SetConn(p, c) == conn' = [conn EXCEPT ![p] = c]

Keep == UNCHANGED <<assets, history, hseq, settings, ui>>

\* The call on p raises: `with conn` rolls back, the caller sees the error.
Raise(p, op, k, actor, result) ==
  /\ SetConn(p, Idle)
  /\ last' = Call(op, k, actor, result)
  /\ UNCHANGED nSucceeded
  /\ Keep

\* Lines 93-98, 129-137, 155-166: the SELECT and the checks on the fetched row.
SelectCheck(op, k, student) ==
  CASE op = "remove_asset" -> remove_check(SelectAsset(Db, k))
    [] op = "checkout" -> checkout_check(SelectAsset(Db, k))
    [] op = "checkin" -> checkin_check(SelectAsset(Db, k), student)
    [] OTHER -> "ok"

\* A call starts on an idle connection; add_asset has no SELECT.
Begin(p, op, k, student) ==
  /\ conn[p].pc = "idle"
  /\ IF SelectCheck(op, k, student) # "ok"
     THEN Raise(p, op, k, student, SelectCheck(op, k, student)) /\ UNCHANGED txn
     ELSE /\ SetConn(p, [pc |-> "write", op |-> op, key |-> k, actor |-> student,
                         ts |-> NoTime])
          /\ UNCHANGED <<last, nSucceeded, txn>>
          /\ Keep

BeginAdd(p, keys) == \E k \in keys : Begin(p, "add_asset", k, NULL)

BeginRemove(p, keys) == \E k \in keys : Begin(p, "remove_asset", k, NULL)

BeginCheckout(p, keys, actors) ==
  \E k \in keys, student \in actors : Begin(p, "checkout", k, student)

BeginCheckin(p, keys, actors) ==
  \E k \in keys, student \in actors : Begin(p, "checkin", k, student)

\* The first INSERT/UPDATE/DELETE of the call, on the committed file d.
FirstWrite(d, c, ts) ==
  CASE c.op = "add_asset" -> InsertAsset(d, c.key)
    [] c.op = "remove_asset" -> DeleteAsset(d, c.key)
    [] c.op = "checkout" -> UpdateCheckedOut(d, c.key, strip(c.actor), ts)
    [] c.op = "checkin" -> UpdateAvailable(d, c.key)

\* checkout and checkin read the clock before their UPDATE (lines 138, 167).
ReadsClockFirst(op) == op \in {"checkout", "checkin"}

\* Variant: the connection is in autocommit mode, the first write is committed
\* on its own before the history row is written.
Write_Autocommit(p) ==
  /\ conn[p].pc = "write"
  /\ txn = NoTxn
  /\ Len(history) < MaxEvents
  /\ IF conn[p].op = "add_asset" /\ InsertAssetFails(Db, conn[p].key)
     THEN Raise(p, conn[p].op, conn[p].key, conn[p].actor, "DuplicateKey")
          /\ UNCHANGED txn
     ELSE \E ts \in (IF ReadsClockFirst(conn[p].op) THEN Timestamps ELSE {NoTime}) :
            /\ txn' = [owner |-> p, db |-> FirstWrite(Db, conn[p], ts)]
            /\ Store(FirstWrite(Db, conn[p], ts))
            /\ SetConn(p, [conn[p] EXCEPT !.pc = "history", !.ts = ts])
            /\ UNCHANGED <<last, nSucceeded, ui>>

\* BEGIN and the first write: needs the write lock, so no other transaction is open.
Write(p) ==
  /\ conn[p].pc = "write"
  /\ txn = NoTxn
  /\ Len(history) < MaxEvents
  /\ IF conn[p].op = "add_asset" /\ InsertAssetFails(Db, conn[p].key)
     THEN Raise(p, conn[p].op, conn[p].key, conn[p].actor, "DuplicateKey")
          /\ UNCHANGED txn
     ELSE \E ts \in (IF ReadsClockFirst(conn[p].op) THEN Timestamps ELSE {NoTime}) :
            /\ txn' = [owner |-> p, db |-> FirstWrite(Db, conn[p], ts)]
            /\ SetConn(p, [conn[p] EXCEPT !.pc = "history", !.ts = ts])
            /\ UNCHANGED <<last, nSucceeded>>
            /\ Keep

HistoryAction(op) ==
  CASE op = "add_asset" -> "added"
    [] op = "remove_asset" -> "removed"
    [] op = "checkout" -> "checked_out"
    [] op = "checkin" -> "checked_in"

HistoryActor(c) == IF ReadsClockFirst(c.op) THEN strip(c.actor) ELSE NULL

\* The INSERT INTO history of the call, in the same transaction.
WriteHistory(p) ==
  /\ conn[p].pc = "history"
  /\ txn.owner = p
  /\ \E ts \in (IF ReadsClockFirst(conn[p].op) THEN {conn[p].ts} ELSE Timestamps) :
       /\ txn' = [txn EXCEPT !.db = InsertHistory(txn.db, conn[p].key,
                    HistoryAction(conn[p].op), HistoryActor(conn[p]), ts)]
       /\ SetConn(p, [conn[p] EXCEPT !.pc = "commit", !.ts = ts])
  /\ UNCHANGED <<last, nSucceeded>>
  /\ Keep

\* conn.commit(): the transaction becomes the committed file; the call returns.
Commit(p) ==
  /\ conn[p].pc = "commit"
  /\ txn.owner = p
  /\ Store(txn.db)
  /\ txn' = NoTxn
  /\ SetConn(p, Idle)
  /\ last' = Call(conn[p].op, conn[p].key, conn[p].actor, "ok")
  /\ nSucceeded' = nSucceeded + 1
  /\ UNCHANGED ui

\* The process dies inside a call: its open transaction is rolled back from
\* the journal, nothing of it reaches the committed file.
Crash(p) ==
  /\ conn[p].pc # "idle"
  /\ txn' = IF txn.owner = p THEN NoTxn ELSE txn
  /\ Raise(p, conn[p].op, NoKey, NULL,
           IF txn.owner = p THEN "CrashedInTransaction" ELSE "CrashedBeforeWrite")

\* The write lock is held by another connection for longer than the busy
\* timeout: sqlite3.OperationalError("database is locked").
BusyTimeout(p) ==
  /\ conn[p].pc = "write"
  /\ txn # NoTxn
  /\ Raise(p, conn[p].op, conn[p].key, conn[p].actor, "StoreFailure")
  /\ UNCHANGED txn

\* One connection, calls one after the other, the process may die at any point.
NextCrash ==
  \/ BeginAdd("c1", CrashKeys)
  \/ BeginRemove("c1", CrashKeys)
  \/ BeginCheckout("c1", CrashKeys, ActorInputs)
  \/ BeginCheckin("c1", CrashKeys, ActorInputs)
  \/ Write("c1")
  \/ WriteHistory("c1")
  \/ Commit("c1")
  \/ Crash("c1")

SpecCrash == Init /\ [][NextCrash]_vars

\* The asset and the two names the concurrent callers work on.
RaceKeys == { <<"Mouse", 1>> }
RaceActors == { <<"a">>, <<"b">> }

\* Several connections run calls at the same time; their processes may die.
NextConn ==
  \E p \in Conns :
    \/ BeginAdd(p, RaceKeys)
    \/ BeginRemove(p, RaceKeys)
    \/ BeginCheckout(p, RaceKeys, RaceActors)
    \/ BeginCheckin(p, RaceKeys, RaceActors)
    \/ Write(p)
    \/ WriteHistory(p)
    \/ Commit(p)
    \/ BusyTimeout(p)
    \/ Crash(p)

SpecConn == Init /\ [][NextConn]_vars

(***************************************************************************)
(* The main window.  The handlers run on the one GUI thread, each to its   *)
(* end, its modal dialogs included; the answers to the dialogs are inputs. *)
(***************************************************************************)
\* What is typed into a password dialog: the default, a word, the word with a
\* leading blank, a blank.
PasswordInputs == { DefaultPassword, <<"p">>, <<" ", "p">>, <<" ">> }

stored_pw(d) == get_setting(d, "admin_password", DefaultPassword)

\* self.tabs.setCurrentIndex(i).  The currentChanged(i) it emits calls
\* _on_tab_changed(i) again; the handler calls it with i = 1 only, and for
\* that index the nested call returns at its first test.
setCurrentIndex(u, i) == [u EXCEPT !.current = i]

\* _on_tab_changed(index); the password dialog returns (pw, ok).
on_tab_changed(u, d, index, pw, ok) ==
  IF index = 0 /\ ~u.admin_verified
  THEN IF ~ok \/ pw # stored_pw(d)
       THEN setCurrentIndex(u, 1)
       ELSE [u EXCEPT !.admin_verified = TRUE]
  ELSE u

\* The sequence s with the item at index from (counted from 0) moved to index to.
MoveItem(s, from, to) ==
  LET rest == [i \in 1..(Len(s) - 1) |-> IF i <= from THEN s[i] ELSE s[i + 1]]
  IN [i \in 1..Len(s) |->
        IF i = to + 1 THEN s[from + 1]
        ELSE IF i <= to THEN rest[i] ELSE rest[i - 1]]

\* QTabBar.moveTab(from, to) of the current tab: the tab stays the current one,
\* at its new index.
moveTab(u, to) ==
  [u EXCEPT !.tabs = MoveItem(u.tabs, u.current, to), !.current = to]

\* _change_password; each dialog returns (text, ok).
change_password(d, current_pw, ok1, new_pw, ok2, confirm_pw, ok3) ==
  IF ~ok1 THEN Outcome(d, "Cancelled")
  ELSE IF current_pw # stored_pw(d) THEN Outcome(d, "CurrentIncorrect")
  ELSE IF ~ok2 \/ strip(new_pw) = <<>> THEN Outcome(d, "NewEmpty")
  ELSE IF ~ok3 \/ new_pw # confirm_pw THEN Outcome(d, "Mismatch")
  ELSE set_setting(d, "admin_password", strip(new_pw))

\* The entries of the dialogs that were shown and not cancelled.
EnteredIn(result, current_pw, ok1, new_pw, ok2, confirm_pw, ok3) ==
  Entered(IF ok1 THEN current_pw ELSE NULL,
          IF result \in {"NewEmpty", "Mismatch", "ok"} /\ ok2 THEN new_pw ELSE NULL,
          IF result \in {"Mismatch", "ok"} /\ ok3 THEN confirm_pw ELSE NULL)

UiReturn(op, result) ==
  /\ last' = Call(op, NoKey, NULL, result)
  /\ UNCHANGED <<nSucceeded, conn, txn>>

\* The program starts: Database() runs _ensure_db, _init_ui ends with
\* _on_tab_changed(0), then win.show().
Startup ==
  /\ ~ui.shown
  /\ \E pw \in PasswordInputs, ok \in BOOLEAN :
       ui' = [on_tab_changed(ui, ensure_db(Db), 0, pw, ok) EXCEPT !.shown = TRUE]
  /\ Store(ensure_db(Db))
  /\ UiReturn("AssetTrackerApp", "ok")

\* The user clicks the tab at index: the tab bar makes it the current one and
\* currentChanged(index) calls _on_tab_changed.
SelectTab ==
  /\ ui.shown
  /\ \E index \in 0..(Len(ui.tabs) - 1), pw \in PasswordInputs, ok \in BOOLEAN :
       /\ index # ui.current
       /\ ui' = [on_tab_changed(setCurrentIndex(ui, index), Db, index, pw, ok)
                   EXCEPT !.entered = NoEntry]
  /\ UiReturn("_on_tab_changed", "ok")
  /\ UNCHANGED <<assets, history, hseq, settings>>

\* The user drags the current tab to index to (setMovable(True)).  Whether the
\* tab bar then emits currentChanged(to) depends on the Qt build; if it does,
\* _on_tab_changed(to) runs.
MoveTab ==
  /\ ui.shown
  /\ \E to \in 0..(Len(ui.tabs) - 1), emitted \in BOOLEAN,
        pw \in PasswordInputs, ok \in BOOLEAN :
       /\ to # ui.current
       /\ ui' = [(IF emitted THEN on_tab_changed(moveTab(ui, to), Db, to, pw, ok)
                  ELSE moveTab(ui, to))
                   EXCEPT !.entered = NoEntry]
  /\ UiReturn("moveTab", "ok")
  /\ UNCHANGED <<assets, history, hseq, settings>>

\* The user clicks "Change Admin Password" on the Reports tab.
ChangePassword ==
  /\ ui.shown
  /\ ui.tabs[ui.current + 1] = "Reports"
  /\ \E current_pw \in PasswordInputs, new_pw \in PasswordInputs,
        confirm_pw \in PasswordInputs, ok1 \in BOOLEAN, ok2 \in BOOLEAN,
        ok3 \in BOOLEAN :
       LET out == change_password(Db, current_pw, ok1, new_pw, ok2, confirm_pw, ok3)
       IN /\ Store(out.db)
          /\ ui' = [ui EXCEPT !.entered =
                      EnteredIn(out.result, current_pw, ok1, new_pw, ok2,
                                confirm_pw, ok3)]
          /\ UiReturn("_change_password", out.result)

\* The user closes the window: the program ends, the next start builds a new
\* window.
Close ==
  /\ ui.shown
  /\ ui' = NewWindow
  /\ UiReturn("close", "ok")
  /\ UNCHANGED <<assets, history, hseq, settings>>

NextUI ==
  \/ Startup
  \/ SelectTab
  \/ MoveTab
  \/ ChangePassword
  \/ Close

SpecUI == Init /\ [][NextUI]_vars

(***************************************************************************)
(* Properties.                                                             *)
(***************************************************************************)
NonEmptyText(x) == x # NULL /\ x # <<>>

KeyOf(e) == <<e.asset_type, e.asset_id>>

\* C1 as stated: in every reachable state of Spec, every stored asset is
\* checked_out iff checked_out_by and checked_out_at are both non-empty, and
\* both are NULL iff it is available.
C1_AsStated ==
  \A k \in DOMAIN assets :
    /\ assets[k].status = "checked_out"
         <=> (NonEmptyText(assets[k].checked_out_by) /\ assets[k].checked_out_at # NoTime)
    /\ (assets[k].checked_out_by = NULL /\ assets[k].checked_out_at = NoTime)
         <=> assets[k].status = "available"

C1_FieldsMatchStatus ==
  \A k \in DOMAIN assets :
    /\ assets[k].status \in {"available", "checked_out"}
    /\ assets[k].status = "checked_out"
         <=> (assets[k].checked_out_by # NULL /\ assets[k].checked_out_at # NoTime)
    /\ (assets[k].checked_out_by = NULL /\ assets[k].checked_out_at = NoTime)
         <=> assets[k].status = "available"

C1_BorrowerIsTrimmedActor ==
  (last'.op = "checkout" /\ last'.result = "ok")
    => (assets'[last'.key].checked_out_by = <<>> <=> strip(last'.actor) = <<>>)

\* C1 (amended): in every reachable state of Spec every stored asset is
\* checked_out iff checked_out_by and checked_out_at are both set (not NULL),
\* and both are NULL iff it is available; the stored checked_out_by is the
\* empty string exactly when the actor of that checkout was blank.
C1_StatusInvariant ==
  [](C1_FieldsMatchStatus) /\ [][C1_BorrowerIsTrimmedActor]_vars

\* An asset checked out with a blank student name.
C1_Witness ==
  /\ last.op = "checkout" /\ last.result = "ok"
  /\ assets[last.key].status = "checked_out"
  /\ assets[last.key].checked_out_by = <<>>

\* C2: a checkout of an existing asset that is not available fails with
\* AlreadyCheckedOut for every actor, and the asset table (borrower and
\* checkout time included) and the history stay as they were.
C2_NoDoubleCheckout ==
  [][ (/\ last'.op = "checkout"
       /\ HasAsset(Db, last'.key)
       /\ assets[last'.key].status # "available")
      => (/\ last'.result = "AlreadyCheckedOut"
          /\ assets' = assets
          /\ history' = history) ]_vars

\* The borrower tries to check the asset out a second time.
C2_Witness ==
  /\ last.op = "checkout" /\ last.result = "AlreadyCheckedOut"
  /\ assets[last.key].status = "checked_out"
  /\ assets[last.key].checked_out_by = strip(last.actor)

SameLetter(c1, c2) == c1 = c2 \/ {c1, c2} = {"a", "A"} \/ {c1, c2} = {"b", "B"}

EqualIgnoringCase(a, b) ==
  Len(a) = Len(b) /\ \A i \in 1..Len(a) : SameLetter(a[i], b[i])

\* C3: a checkin of a checked-out asset succeeds iff the trimmed actor equals
\* the stored checked_out_by ignoring case; on a mismatch it fails with
\* ActorMismatch and the row is unchanged, on a match the row becomes
\* available with both borrower fields cleared.
C3_CheckinActorMatch ==
  [][ (/\ last'.op = "checkin"
       /\ HasAsset(Db, last'.key)
       /\ assets[last'.key].status = "checked_out")
      => LET k == last'.key
             match == EqualIgnoringCase(strip(last'.actor), assets[k].checked_out_by)
         IN /\ last'.result = "ok" <=> match
            /\ ~match => (last'.result = "ActorMismatch" /\ assets'[k] = assets[k])
            /\ match => assets'[k] = AssetRow("available", NULL, NoTime) ]_vars

\* A checkin that succeeded under a name spelled differently from the checkout's.
C3_Witness ==
  /\ last.op = "checkin" /\ last.result = "ok"
  /\ assets[last.key].status = "available"
  /\ \E i \in 1..Len(history) :
       /\ KeyOf(history[i]) = last.key
       /\ history[i].action = "checked_out"
       /\ history[i].actor # strip(last.actor)

\* The actions recorded in the history for asset k, in event order.
RECURSIVE ActionsOf(_, _)
ActionsOf(h, k) ==
  IF h = <<>> THEN <<>>
  ELSE IF KeyOf(Head(h)) = k THEN <<Head(h).action>> \o ActionsOf(Tail(h), k)
  ELSE ActionsOf(Tail(h), k)

\* C4: concurrent checkouts of the same available asset are serialized, at
\* most one succeeds and one 'checked_out' event is appended: the history of
\* an asset never holds two 'checked_out' events in a row.
C4_OneCheckoutWins ==
  \A k \in RaceKeys :
    LET acts == ActionsOf(history, k)
    IN \A i \in 1..(Len(acts) - 1) :
         ~(acts[i] = "checked_out" /\ acts[i + 1] = "checked_out")

MutatingOps == {"add_asset", "remove_asset", "checkout", "checkin"}

ExpectedAction(op) ==
  CASE op = "add_asset" -> "added"
    [] op = "remove_asset" -> "removed"
    [] op = "checkout" -> "checked_out"
    [] op = "checkin" -> "checked_in"
    [] OTHER -> "none"

C5_OneEventPerSuccess ==
  IF last'.op \in MutatingOps /\ last'.result = "ok"
  THEN /\ Len(history') = Len(history) + 1
       /\ SubSeq(history', 1, Len(history)) = history
       /\ KeyOf(history'[Len(history')]) = last'.key
       /\ history'[Len(history')].action = ExpectedAction(last'.op)
  ELSE history' = history

\* C5: every successful add_asset, remove_asset, checkout and checkin appends
\* exactly one history event with the call's type, id and action, a failed
\* call appends none, and the number of events equals the number of calls
\* that succeeded.
C5_HistoryCountsSuccesses ==
  [](Len(history) = nSucceeded) /\ [][C5_OneEventPerSuccess]_vars

\* Three calls succeeded and a fourth one failed.
C5_Witness ==
  /\ nSucceeded = 3
  /\ last.op \in MutatingOps /\ last.result # "ok"
  /\ Len(history) = 3

\* C6: the history is append-only: in every step every event stays in its
\* place with all its fields, none is removed, and an appended event has an
\* event_id greater than all the existing ones.
C6_HistoryAppendOnly ==
  [][ /\ Len(history') >= Len(history)
      /\ \A i \in 1..Len(history) : history'[i] = history[i]
      /\ \A j \in (Len(history) + 1)..Len(history') :
           \A i \in 1..Len(history) : history'[j].event_id > history[i].event_id ]_vars

\* An asset was removed and the events of its earlier life are still in the log.
C6_Witness ==
  /\ Len(history) >= 3
  /\ history[Len(history)].action = "removed"
  /\ ~HasAsset(Db, KeyOf(history[Len(history)]))
  /\ \E i \in 1..(Len(history) - 1) :
       /\ KeyOf(history[i]) = KeyOf(history[Len(history)])
       /\ history[i].action = "checked_out"

\* C7: an operation is atomic with respect to a crash: the committed tables
\* change only when the call commits, a call that stops before its commit
\* leaves them as they were, and no step changes the asset table without the
\* history or the history without the asset table.
C7_AtomicUnderCrash ==
  [][ /\ (assets' # assets) <=> (history' # history)
      /\ ~(conn["c1"].pc = "commit" /\ last'.result = "ok")
           => (assets' = assets /\ history' = history /\ hseq' = hseq) ]_vars

\* A checkout died after its UPDATE and INSERT, before the commit: the asset
\* is still available and the log holds no checkout.
C7_Witness ==
  /\ last.op = "checkout" /\ last.result = "CrashedInTransaction"
  /\ txn = NoTxn
  /\ \E k \in DOMAIN assets : assets[k].status = "available"
  /\ \A i \in 1..Len(history) : history[i].action # "checked_out"

\* C8: add_asset of an existing (type, id) fails with DuplicateKey and leaves
\* the asset table and the history as they were: the existing row keeps its
\* status, borrower and time, and no 'added' event is appended.
C8_DuplicateAddRejected ==
  [][ (last'.op = "add_asset" /\ HasAsset(Db, last'.key))
      => (/\ last'.result = "DuplicateKey"
          /\ assets' = assets
          /\ history' = history) ]_vars

\* An add of an asset that is checked out was rejected; it is still checked out.
C8_Witness ==
  /\ last.op = "add_asset" /\ last.result = "DuplicateKey"
  /\ assets[last.key].status = "checked_out"
  /\ assets[last.key].checked_out_by # NULL

\* C9: checkout, checkin and remove_asset of a (type, id) that is not in the
\* asset table fail with NotFound, whatever the actor and whatever other
\* assets exist.
C9_AbsentKeyNotFound ==
  [][ (/\ last'.op \in {"checkout", "checkin", "remove_asset"}
       /\ ~HasAsset(Db, last'.key))
      => last'.result = "NotFound" ]_vars

\* NotFound for an asset that was added and removed, while an asset with the
\* same id and another type exists.
C9_Witness ==
  /\ last.op \in {"checkout", "checkin", "remove_asset"}
  /\ last.result = "NotFound"
  /\ \E i \in 1..Len(history) :
       KeyOf(history[i]) = last.key /\ history[i].action = "removed"
  /\ \E x \in DOMAIN assets : x[2] = last.key[2] /\ x[1] # last.key[1]

FailureKinds == {"NotFound", "AlreadyCheckedOut", "NotCheckedOut", "ActorMismatch"}

\* C10: a checkout, checkin or remove_asset that fails with NotFound,
\* AlreadyCheckedOut, NotCheckedOut or ActorMismatch leaves every asset row,
\* the history and the settings exactly as they were.
C10_FailedCallChangesNothing ==
  [][ (/\ last'.op \in {"checkout", "checkin", "remove_asset"}
       /\ last'.result \in FailureKinds)
      => (/\ assets' = assets
          /\ history' = history
          /\ hseq' = hseq
          /\ settings' = settings) ]_vars

\* A checkin under the wrong name failed, after the admin password was changed.
C10_Witness ==
  /\ last.op = "checkin" /\ last.result = "ActorMismatch"
  /\ assets[last.key].status = "checked_out"
  /\ settings["admin_password"] # EmptyDb.settings["admin_password"]
  /\ Len(history) >= 2

\* The events of history h that concern asset k, in event order.
EventsOf(h, k) == SelectSeq(h, LAMBDA e : KeyOf(e) = k)

LastEventOf(h, k) == EventsOf(h, k)[Len(EventsOf(h, k))]

\* C11: a successful checkout writes the same timestamp and the same borrower
\* to the asset row and to the 'checked_out' event it appends, so in every
\* reachable state a checked-out asset's (checked_out_by, checked_out_at)
\* equals the (actor, timestamp) of the most recent history event of its key,
\* and that event is a 'checked_out' event.
C11_RowMatchesLatestEvent ==
  /\ \A k \in DOMAIN assets :
       assets[k].status = "checked_out"
         => /\ EventsOf(history, k) # <<>>
            /\ LastEventOf(history, k).action = "checked_out"
            /\ LastEventOf(history, k).actor = assets[k].checked_out_by
            /\ LastEventOf(history, k).timestamp = assets[k].checked_out_at
  /\ (last.op = "checkout" /\ last.result = "ok")
       => /\ HasAsset(Db, last.key)
          /\ history[Len(history)].action = "checked_out"
          /\ KeyOf(history[Len(history)]) = last.key
          /\ history[Len(history)].timestamp = assets[last.key].checked_out_at
          /\ history[Len(history)].actor = assets[last.key].checked_out_by

\* C11 witness: a checkout with a padded name has just succeeded at the later
\* clock reading, after an event stamped with the earlier one.
C11_Witness ==
  /\ last.op = "checkout"
  /\ last.result = "ok"
  /\ last.actor = <<" ", "A">>
  /\ assets[last.key].checked_out_at = 2
  /\ assets[last.key].checked_out_by = <<"A">>
  /\ history[Len(history)].timestamp = 2
  /\ \E i \in 1..Len(history) : history[i].timestamp = 1

\* The status the last event of a key stands for.
StatusAfter(action) == IF action = "checked_out" THEN "checked_out" ELSE "available"

\* C12: list_assets() returns exactly one row per existing asset, in ascending
\* order of (type, id), and each row carries the status produced by the last
\* successful transition on its asset.
C12_ListIsSortedSnapshot ==
  LET rows == list_assets(Db, FALSE)
  IN /\ Len(rows) = Cardinality(DOMAIN assets)
     /\ \A k \in DOMAIN assets :
          \E i \in 1..Len(rows) : <<rows[i].type, rows[i].id>> = k
     /\ \A i, j \in 1..Len(rows) :
          i < j => \/ BytesLess(Bytes(rows[i].type), Bytes(rows[j].type))
                   \/ rows[i].type = rows[j].type /\ rows[i].id < rows[j].id
     /\ \A i \in 1..Len(rows) :
          LET k == <<rows[i].type, rows[i].id>>
          IN /\ EventsOf(history, k) # <<>>
             /\ rows[i].status = StatusAfter(LastEventOf(history, k).action)

\* C12 witness: Mouse 1 was added before Keyboard 1 and then checked out, the
\* last call failed; the listing shows the keyboard first and the mouse as
\* checked out.
C12_Witness ==
  /\ last.result \in FailureKinds
  /\ Len(history) = 3
  /\ KeyOf(history[1]) = <<"Mouse", 1>>
  /\ KeyOf(history[2]) = <<"Keyboard", 1>>
  /\ Len(list_assets(Db, FALSE)) = 2
  /\ list_assets(Db, FALSE)[1].type = "Keyboard"
  /\ list_assets(Db, FALSE)[1].status = "available"
  /\ list_assets(Db, FALSE)[2].type = "Mouse"
  /\ list_assets(Db, FALSE)[2].status = "checked_out"

\* C13: get_report_data() returns exactly the checked-out assets, as rows
\* (id, type, borrower, checkout timestamp) in ascending order of (type, id),
\* the same assets in the same order as list_assets(only_checked_out=True);
\* an asset is in the report right after its successful checkout and no longer
\* after its successful checkin.
C13_ReportIsCheckedOutListing ==
  LET report == get_report_data(Db)
      listed == list_assets(Db, TRUE)
  IN /\ Len(report) = Cardinality({ k \in DOMAIN assets :
                                      assets[k].status = "checked_out" })
     /\ Len(report) = Len(listed)
     /\ \A i \in 1..Len(report) :
          /\ report[i].asset_id = listed[i].id
          /\ report[i].asset_type = listed[i].type
          /\ report[i].checked_out_by = listed[i].checked_out_by
          /\ report[i].checked_out_at = listed[i].checked_out_at
          /\ listed[i].status = "checked_out"
          /\ HasAsset(Db, <<report[i].asset_type, report[i].asset_id>>)
          /\ assets[<<report[i].asset_type, report[i].asset_id>>]
               = AssetRow("checked_out", report[i].checked_out_by,
                          report[i].checked_out_at)
     /\ \A i, j \in 1..Len(report) :
          i < j => \/ BytesLess(Bytes(report[i].asset_type), Bytes(report[j].asset_type))
                   \/ report[i].asset_type = report[j].asset_type /\ report[i].asset_id < report[j].asset_id
     /\ (last.op = "checkout" /\ last.result = "ok")
          => \E i \in 1..Len(report) :
               /\ <<report[i].asset_type, report[i].asset_id>> = last.key
               /\ report[i].checked_out_by = strip(last.actor)
     /\ (last.op = "checkin" /\ last.result = "ok")
          => \A i \in 1..Len(report) : <<report[i].asset_type, report[i].asset_id>> # last.key

\* C13 witness: an asset was added, checked out by "A" and checked in by "a";
\* the report is empty again.
C13_Witness ==
  /\ last.op = "checkin"
  /\ last.result = "ok"
  /\ last.actor = <<"a">>
  /\ ActionsOf(history, last.key) = <<"added", "checked_out", "checked_in">>
  /\ history[2].actor = <<"A">>
  /\ get_report_data(Db) = <<>>

\* C14: _ensure_db on an initialised database changes no asset row, no history
\* event and no setting (an overwritten admin_password stays overwritten), and
\* running it again changes nothing either; it seeds the default password only
\* where the key is absent, as on a new file.
C14_EnsureDbKeepsData ==
  /\ [](/\ ensure_db(Db) = Db
        /\ ensure_db(ensure_db(NewFile)) = ensure_db(NewFile)
        /\ ensure_db(NewFile) = EmptyDb
        /\ ensure_db(NewFile).settings["admin_password"] = DefaultPassword)
  /\ [][ last'.op = "_ensure_db"
           => /\ assets' = assets
              /\ history' = history
              /\ hseq' = hseq
              /\ settings' = settings ]_vars

\* C14 witness: a process has started on a database that holds an asset, its
\* events and an overwritten admin password.
C14_Witness ==
  /\ last.op = "_ensure_db"
  /\ settings["admin_password"] = <<"p", "w">>
  /\ DOMAIN assets # {}
  /\ Len(history) >= 2

\* C15: remove_asset of an existing asset succeeds whatever its status; it
\* deletes the row and appends exactly one event, 'removed', and no
\* 'checked_in' even if the asset was checked out.  A later add_asset creates
\* the asset as available with no borrower and no checkout time, and a checkin
\* of an asset whose latest event is 'added' fails with NotCheckedOut and
\* changes nothing: the checkout made before the removal cannot be returned.
C15_RemoveWhileCheckedOut ==
  [][ /\ (last'.op = "remove_asset" /\ HasAsset(Db, last'.key))
         => /\ last'.result = "ok"
            /\ ~HasAsset(Db', last'.key)
            /\ \A k \in DOMAIN assets \ {last'.key} :
                 HasAsset(Db', k) /\ assets'[k] = assets[k]
            /\ Len(history') = Len(history) + 1
            /\ SubSeq(history', 1, Len(history)) = history
            /\ history'[Len(history')].action = "removed"
            /\ KeyOf(history'[Len(history')]) = last'.key
      /\ (last'.op = "add_asset" /\ last'.result = "ok")
         => /\ HasAsset(Db', last'.key)
            /\ assets'[last'.key] = AssetRow("available", NULL, NoTime)
      /\ (/\ last'.op = "checkin"
          /\ HasAsset(Db, last'.key)
          /\ LastEventOf(history, last'.key).action = "added")
         => /\ last'.result = "NotCheckedOut"
            /\ assets' = assets
            /\ history' = history ]_vars

\* C15 witness: the asset was added, checked out by "A", removed while checked
\* out and added again; "a" then tried to return it and got NotCheckedOut.
C15_Witness ==
  /\ last.op = "checkin"
  /\ last.actor = <<"a">>
  /\ last.result = "NotCheckedOut"
  /\ ActionsOf(history, last.key) = <<"added", "checked_out", "removed", "added">>
  /\ history[2].actor = <<"A">>
  /\ assets[last.key] = AssetRow("available", NULL, NoTime)

\* C16: concurrent remove_asset calls, or concurrent matching checkin calls, on
\* the same asset are serialized: one succeeds, the others fail with NotFound
\* or NotCheckedOut, so the history of an asset never holds two 'removed'
\* events in a row nor two 'checked_in' events in a row, and a remove_asset or
\* checkin that returns normally has found the row in the state it requires.
C16_OneRemovalOneReturn ==
  /\ \A k \in RaceKeys :
       \A i \in 1..(Len(ActionsOf(history, k)) - 1) :
         ActionsOf(history, k)[i] = ActionsOf(history, k)[i + 1]
           => ActionsOf(history, k)[i] \notin {"removed", "checked_in"}
  /\ (last.op \in {"remove_asset", "checkin"} /\ last.result = "ok")
       => /\ Len(ActionsOf(history, last.key)) >= 2
          /\ ActionsOf(history, last.key)[Len(ActionsOf(history, last.key)) - 1]
               \in (IF last.op = "checkin" THEN {"checked_out"}
                    ELSE {"added", "checked_out", "checked_in"})

\* The events that may follow one another in the history of one asset.
MayFollow(action) ==
  CASE action = "added" -> {"checked_out", "removed"}
    [] action = "checked_out" -> {"checked_in", "removed"}
    [] action = "checked_in" -> {"checked_out", "removed"}
    [] action = "removed" -> {"added"}

\* C17: with the calls made one after the other, the assets table is the replay
\* of the history: an asset exists iff it has events and the latest is not
\* 'removed', it is checked_out iff the latest is 'checked_out' and available
\* iff the latest is 'added' or 'checked_in'; the events of an asset start with
\* 'added', then alternate 'checked_out' and 'checked_in', a 'removed' may end
\* them, and after a 'removed' only 'added' follows.
C17_TableIsReplayOfHistory ==
  \A k \in Keys :
    LET acts == ActionsOf(history, k)
    IN /\ HasAsset(Db, k) <=> (acts # <<>> /\ acts[Len(acts)] # "removed")
       /\ HasAsset(Db, k)
            => /\ assets[k].status \in {"available", "checked_out"}
               /\ assets[k].status = "checked_out" <=> acts[Len(acts)] = "checked_out"
               /\ assets[k].status = "available"
                    <=> acts[Len(acts)] \in {"added", "checked_in"}
       /\ acts # <<>> => acts[1] = "added"
       /\ \A i \in 1..(Len(acts) - 1) : acts[i + 1] \in MayFollow(acts[i])

\* C17 witness: two assets with interleaved events; the mouse was added and
\* later removed, the keyboard was added in between and is still there.
C17_Witness ==
  /\ ActionsOf(history, <<"Mouse", 1>>) = <<"added", "removed">>
  /\ ActionsOf(history, <<"Keyboard", 1>>) = <<"added">>
  /\ KeyOf(history[2]) = <<"Keyboard", 1>>
  /\ ~HasAsset(Db, <<"Mouse", 1>>)
  /\ assets[<<"Keyboard", 1>>].status = "available"

Queries == {"list_assets", "get_report_data", "get_setting"}

\* C18: a call of add_asset, remove_asset, checkout or checkin on one key,
\* whether it succeeds or fails, leaves every row of another key as it was
\* (same id with another type, same type with another id) and changes no
\* setting; set_setting changes the value of the key it is given and nothing
\* else, in particular no asset row and no history event; list_assets,
\* get_report_data and get_setting change nothing.
C18_OnlyTheNamedRowChanges ==
  [][ /\ last'.op \in MutatingOps
         => /\ \A k \in Keys \ {last'.key} :
                 /\ HasAsset(Db', k) <=> HasAsset(Db, k)
                 /\ HasAsset(Db, k) => assets'[k] = assets[k]
            /\ settings' = settings
      /\ last'.op = "set_setting"
         => /\ assets' = assets
            /\ history' = history
            /\ hseq' = hseq
            /\ DOMAIN settings' = DOMAIN settings \cup {last'.key[1]}
            /\ \A key \in DOMAIN settings \ {last'.key[1]} :
                 settings'[key] = settings[key]
      /\ last'.op \in Queries
         => /\ assets' = assets
            /\ history' = history
            /\ hseq' = hseq
            /\ settings' = settings ]_vars

\* C18 witness: with Mouse 2 (same type) and Keyboard 1 (same id) stored and
\* the theme setting written next to the admin password, Mouse 1 has just been
\* added.
C18_Witness ==
  /\ last.op = "add_asset"
  /\ last.result = "ok"
  /\ last.key = <<"Mouse", 1>>
  /\ DOMAIN assets = Keys
  /\ DOMAIN settings = SettingNames
  /\ settings["admin_password"] = DefaultPassword

\* C19: the Inventory tab is password-protected: whatever tabs were selected,
\* however the tabs were reordered and however the password prompts were
\* answered, the window shows the Inventory tab only if the stored admin
\* password was entered correctly earlier in the session (admin_verified).
C19_InventoryNeedsPassword ==
  (ui.shown /\ ui.tabs[ui.current + 1] = "Inventory") => ui.admin_verified

\* C20: _change_password overwrites the admin password only when the entered
\* current password equals the stored one, the new password is non-empty after
\* trimming and equals its confirmation; and after a successful change the new
\* password as it was entered is the one the password comparisons accept,
\* leading or trailing blanks included.
C20_ChangedPasswordIsAccepted ==
  [][ last'.op = "_change_password"
        => /\ last'.result = "ok"
                => /\ ui'.entered.current_pw = stored_pw(Db)
                   /\ strip(ui'.entered.new_pw) # <<>>
                   /\ ui'.entered.new_pw = ui'.entered.confirm_pw
                   /\ ui'.entered.new_pw = stored_pw(Db')
           /\ last'.result # "ok" => settings' = settings ]_vars

====
